---- MODULE Spec2Model ----
(***************************************************************************)
(* Model of process_link.connection.Connection: the polled-tag list, the   *)
(* flag-plus-sleep lock (thread_lock), the polling flag and the background *)
(* poll threads, driven by control threads that call update_polled_tags,   *)
(* remove_polled_tags and set_polling; and the configuration calls of the  *)
(* same class: new_tag, load_tags_from_db, save_to_db, connect_connection  *)
(* and disconnect_connection, each taken as one step.                      *)
(*                                                                         *)
(* Granularity: every step reads or writes the shared fields at most once  *)
(* per loop iteration of the source.  The test of thread_lock and the      *)
(* assignment thread_lock = True are separate steps, as are the membership *)
(* test and the append / remove that follows it: CPython may switch        *)
(* threads between any two bytecodes.                                      *)
(***************************************************************************)
EXTENDS Integers, Sequences, FiniteSets, TLC

\* ---- bounds -------------------------------------------------------------
NumTags == 2      \* tag ids t1..tNumTags
MaxLen == 2       \* longest sub_tags argument
NumCtl == 2       \* control-path threads
MaxLoops == 2     \* poll threads that can be alive at once

AllTags == <<"t1", "t2", "t3", "t4">>
Tags == {AllTags[k] : k \in 1..NumTags}
Ctl == 1..NumCtl
Loops == 1..MaxLoops

RECURSIVE SeqsUpTo(_)
SeqsUpTo(n) == IF n = 0 THEN {<<>>}
               ELSE LET S == SeqsUpTo(n - 1)
                    IN S \cup {Append(s, t) : s \in {x \in S : Len(x) = n - 1}, t \in Tags}
Args == SeqsUpTo(MaxLen)

VARIABLES
  polled_tags,  \* self.polled_tags : sequence of tag ids
  thread_lock,  \* self.thread_lock : BOOLEAN
  polling,      \* self.polling     : BOOLEAN
  cpc,          \* control thread -> position in its current call
  cop,          \* control thread -> "update" | "remove"
  csub,         \* control thread -> sub_tags argument
  cj,           \* control thread -> index of the for loop it is in
  cprior,       \* control thread -> polled-tag set when the call set thread_lock
  cstarted,     \* control thread -> its set_polling call started a poll thread
  ppc,          \* poll thread slot -> position in poll()
  pidx,         \* poll thread -> index of the list iterator over polled_tags
  pupd,         \* poll thread -> keys of the updates dict of the cycle
  psnap,        \* poll thread -> polled-tag set when the cycle set thread_lock
  conn_id,          \* self._id
  connection_type,  \* self._connection_type
  tags,             \* self._tags : tag id -> the Tag stored under it
  con_man,          \* self.con_man : "False" | "ConxManager"
  raised,           \* exception the last configuration call ended with
  returned,         \* value the last configuration call returned
  clast             \* the last update_polled_tags call that returned: its
                    \* argument, and the list and flag it left

vars == <<polled_tags, thread_lock, polling, cpc, cop, csub, cj, cprior, cstarted,
          ppc, pidx, pupd, psnap,
          conn_id, connection_type, tags, con_man, raised, returned, clast>>
\* the fields the configuration calls work on, and the rest
tvars == <<conn_id, connection_type, tags, con_man, raised, returned>>
lvars == <<polled_tags, thread_lock, polling, cpc, cop, csub, cj, cprior, cstarted,
           ppc, pidx, pupd, psnap>>
cvars == <<cpc, cop, csub, cj, cprior, cstarted>>
pvars == <<ppc, pidx, pupd, psnap>>

\* ---- helpers ------------------------------------------------------------
Range(s) == {s[k] : k \in 1..Len(s)}

\* list.pop(i), 0-based i, on a list where i is in range
Pop(s, i) == [k \in 1..(Len(s) - 1) |-> IF k <= i THEN s[k] ELSE s[k + 1]]

\* list.remove(x): drops the first occurrence of x
FirstIdx(s, x) == CHOOSE k \in 1..Len(s) : s[k] = x /\ \A m \in 1..(k - 1) : s[m] # x
Remove(s, x) == Pop(s, FirstIdx(s, x) - 1)

\* len(hitlist): the indices of polled_tags whose tag is not in sub_tags
HitCount(s, sub) == Cardinality({k \in 1..Len(s) : s[k] \notin Range(sub)})

Alive == {p \in Loops : ppc[p] # "none"}
\* the slot a new thread of the pool L takes
FreeSlot(L) == CHOOSE p \in L : ppc[p] = "none" /\ \A q \in L : ppc[q] = "none" => p <= q

\* __init__: the lists, flags and threads of a new connection
InitThreads ==
  /\ polled_tags = <<>>
  /\ thread_lock = FALSE
  /\ polling = FALSE
  /\ cpc = [c \in Ctl |-> "idle"]
  /\ cop = [c \in Ctl |-> "update"]
  /\ csub = [c \in Ctl |-> <<>>]
  /\ cj = [c \in Ctl |-> 0]
  /\ cprior = [c \in Ctl |-> {}]
  /\ cstarted = [c \in Ctl |-> FALSE]
  /\ ppc = [p \in Loops |-> "none"]
  /\ pidx = [p \in Loops |-> 0]
  /\ pupd = [p \in Loops |-> {}]
  /\ psnap = [p \in Loops |-> {}]
  /\ clast = <<>>

\* __init__: self._id = params.get('id'), self._connection_type (overridden
\* by LogixConnection), self._tags = {}, self.con_man = False
InitConnection(id, type) ==
  /\ conn_id = id
  /\ connection_type = type
  /\ tags = <<>>
  /\ con_man = "False"
  /\ raised = "none"
  /\ returned = <<>>

\* a base Connection with id "c1"
Init == InitThreads /\ InitConnection("c1", "local")

\* ---- set_polling --------------------------------------------------------
StartsThreadAlways(should_poll) == should_poll
\* if should_poll and not self.polling: a new thread is created and started
StartsThread(should_poll) == should_poll /\ ~polling

\* a started thread begins at the top of poll(); L is the pool of thread
\* slots: the call waits while every slot of L holds a live thread
set_polling(L, should_poll) ==
  /\ IF StartsThread(should_poll)
       THEN /\ \E p \in L : ppc[p] = "none"
            /\ ppc' = [ppc EXCEPT ![FreeSlot(L)] = "while"]
       ELSE ppc' = ppc
  /\ polling' = should_poll

\* a control thread calls set_polling directly (connect / disconnect)
CallSetPolling(c, L, should_poll) ==
  /\ cpc[c] = "idle"
  /\ set_polling(L, should_poll)
  /\ UNCHANGED <<polled_tags, thread_lock, cvars, pidx, pupd, psnap, tvars, clast>>

\* ---- update_polled_tags / remove_polled_tags ----------------------------
\* the call and the first test of aquire_lock's while(self.thread_lock)
Call(c, op, sub) ==
  /\ cpc[c] = "idle"
  /\ cpc' = [cpc EXCEPT ![c] = IF thread_lock THEN "spin" ELSE "lock"]
  /\ cop' = [cop EXCEPT ![c] = op]
  /\ csub' = [csub EXCEPT ![c] = sub]
  /\ UNCHANGED <<polled_tags, thread_lock, polling, cj, cprior, cstarted, pvars, tvars, clast>>

\* aquire_lock: while(self.thread_lock): time.sleep(0.001), the later tests
AquireSpin(c) ==
  /\ cpc[c] = "spin"
  /\ ~thread_lock
  /\ cpc' = [cpc EXCEPT ![c] = "lock"]
  /\ UNCHANGED <<polled_tags, thread_lock, polling, cop, csub, cj, cprior, cstarted, pvars, tvars, clast>>

\* aquire_lock: self.thread_lock = True
AquireSet(c) ==
  /\ cpc[c] = "lock"
  /\ thread_lock' = TRUE
  /\ cpc' = [cpc EXCEPT ![c] = "chk"]
  /\ cj' = [cj EXCEPT ![c] = 1]
  /\ cprior' = [cprior EXCEPT ![c] = Range(polled_tags)]
  /\ UNCHANGED <<polled_tags, polling, cop, csub, cstarted, pvars, tvars, clast>>

\* for tag in sub_tags: if tag not in polled_tags (update) / if tag in polled_tags (remove)
LoopTest(c) ==
  /\ cpc[c] = "chk"
  /\ IF cj[c] > Len(csub[c])
       THEN /\ cpc' = [cpc EXCEPT ![c] = "hit"]
            /\ cj' = cj
       ELSE LET tag == csub[c][cj[c]]
                present == tag \in Range(polled_tags)
            IN IF (cop[c] = "update" /\ ~present) \/ (cop[c] = "remove" /\ present)
                 THEN /\ cpc' = [cpc EXCEPT ![c] = "mod"]
                      /\ cj' = cj
                 ELSE /\ cpc' = cpc
                      /\ cj' = [cj EXCEPT ![c] = cj[c] + 1]
  /\ UNCHANGED <<polled_tags, thread_lock, polling, cop, csub, cprior, cstarted, pvars, tvars, clast>>

\* self.polled_tags.append(tag) / self.polled_tags.remove(tag)
\* remove raises ValueError when the tag is gone by now: the call ends with
\* thread_lock left True
LoopBody(c) ==
  /\ cpc[c] = "mod"
  /\ LET tag == csub[c][cj[c]]
     IN IF cop[c] = "update"
          THEN /\ polled_tags' = Append(polled_tags, tag)
               /\ cpc' = [cpc EXCEPT ![c] = "chk"]
               /\ cj' = [cj EXCEPT ![c] = cj[c] + 1]
          ELSE IF tag \in Range(polled_tags)
                 THEN /\ polled_tags' = Remove(polled_tags, tag)
                      /\ cpc' = [cpc EXCEPT ![c] = "chk"]
                      /\ cj' = [cj EXCEPT ![c] = cj[c] + 1]
                 ELSE /\ polled_tags' = polled_tags
                      /\ cpc' = [cpc EXCEPT ![c] = "raised"]
                      /\ cj' = cj
  /\ UNCHANGED <<thread_lock, polling, cop, csub, cprior, cstarted, pvars, tvars, clast>>

\* hitlist = [i for i, tag in enumerate(polled_tags) if not tag in sub_tags]
Hitlist(c) ==
  /\ cpc[c] = "hit"
  /\ cj' = [cj EXCEPT ![c] = HitCount(polled_tags, csub[c]) - 1]
  /\ cpc' = [cpc EXCEPT ![c] = "pop"]
  /\ UNCHANGED <<polled_tags, thread_lock, polling, cop, csub, cprior, cstarted, pvars, tvars, clast>>

\* for i in range(len(hitlist)-1, -1, -1): self.polled_tags.pop(i)
\* the loop pops index i, not hitlist[i]; cj holds i
PopIndex(c) == cj[c]

\* pop raises IndexError when the index is out of range: the call ends with
\* thread_lock left True
PopStep(c) ==
  /\ cpc[c] = "pop"
  /\ IF cj[c] < 0
       THEN /\ cpc' = [cpc EXCEPT ![c] = "setp"]
            /\ UNCHANGED <<polled_tags, cj>>
       ELSE IF PopIndex(c) < Len(polled_tags)
              THEN /\ polled_tags' = Pop(polled_tags, PopIndex(c))
                   /\ cj' = [cj EXCEPT ![c] = cj[c] - 1]
                   /\ cpc' = cpc
              ELSE /\ cpc' = [cpc EXCEPT ![c] = "raised"]
                   /\ UNCHANGED <<polled_tags, cj>>
  /\ UNCHANGED <<thread_lock, polling, cop, csub, cprior, cstarted, pvars, tvars, clast>>

\* bool(len(self.polled_tags)), the argument of the closing set_polling call
ShouldPollFromArg(c) == Len(csub[c]) > 0
ShouldPoll(c) == Len(polled_tags) > 0

\* self.set_polling(bool(len(self.polled_tags)))
SetPollingStep(c, L) ==
  /\ cpc[c] = "setp"
  /\ set_polling(L, ShouldPoll(c))
  /\ cstarted' = [cstarted EXCEPT ![c] = StartsThread(ShouldPoll(c))]
  /\ cpc' = [cpc EXCEPT ![c] = "rel"]
  /\ UNCHANGED <<polled_tags, thread_lock, cop, csub, cj, cprior, pidx, pupd, psnap, tvars, clast>>

\* self.thread_lock = False, and the call returns
ReleaseLock(c) ==
  /\ cpc[c] = "rel"
  /\ thread_lock' = FALSE
  /\ cpc' = [cpc EXCEPT ![c] = "idle"]
  /\ cop' = [cop EXCEPT ![c] = "update"]
  /\ csub' = [csub EXCEPT ![c] = <<>>]
  /\ cj' = [cj EXCEPT ![c] = 0]
  /\ cprior' = [cprior EXCEPT ![c] = {}]
  /\ cstarted' = [cstarted EXCEPT ![c] = FALSE]
  /\ UNCHANGED <<polled_tags, polling, pvars, tvars>>

Release(c) == ReleaseLock(c) /\ UNCHANGED clast

\* the same return, with the call noted for the next one to compare with
ReleaseNoted(c) ==
  /\ ReleaseLock(c)
  /\ clast' = <<csub[c], polled_tags, polling>>

\* ---- poll ---------------------------------------------------------------
\* while(self.polling): the loop returns when the flag is false
PollWhile(p) ==
  /\ ppc[p] = "while"
  /\ ppc' = [ppc EXCEPT ![p] = IF polling THEN "spin" ELSE "none"]
  /\ UNCHANGED <<polled_tags, thread_lock, polling, cvars, pidx, pupd, psnap, tvars, clast>>

\* while(self.thread_lock): time.sleep(0.001)
PollSpin(p) ==
  /\ ppc[p] = "spin"
  /\ ~thread_lock
  /\ ppc' = [ppc EXCEPT ![p] = "lock"]
  /\ UNCHANGED <<polled_tags, thread_lock, polling, cvars, pidx, pupd, psnap, tvars, clast>>

\* self.thread_lock = True; the for loop creates its iterator
PollLock(p) ==
  /\ ppc[p] = "lock"
  /\ thread_lock' = TRUE
  /\ ppc' = [ppc EXCEPT ![p] = "iter"]
  /\ pidx' = [pidx EXCEPT ![p] = 1]
  /\ pupd' = [pupd EXCEPT ![p] = {}]
  /\ psnap' = [psnap EXCEPT ![p] = Range(polled_tags)]
  /\ UNCHANGED <<polled_tags, polling, cvars, tvars, clast>>

\* for tag in self.polled_tags: updates[tag].append(...)
\* the list iterator reads the live list by index
PollIter(p) ==
  /\ ppc[p] = "iter"
  /\ IF pidx[p] <= Len(polled_tags)
       THEN /\ pupd' = [pupd EXCEPT ![p] = pupd[p] \cup {polled_tags[pidx[p]]}]
            /\ pidx' = [pidx EXCEPT ![p] = pidx[p] + 1]
            /\ ppc' = ppc
       ELSE /\ ppc' = [ppc EXCEPT ![p] = "sink"]
            /\ UNCHANGED <<pidx, pupd>>
  /\ UNCHANGED <<polled_tags, thread_lock, polling, cvars, psnap, tvars, clast>>

\* self.process_link.update_handler.store_updates(updates): the batch pupd[p]
\* is handed to the sink.  ok = FALSE: store_updates raises and the thread
\* dies with thread_lock left True
PollSink(p, ok) ==
  /\ ppc[p] = "sink"
  /\ ppc' = [ppc EXCEPT ![p] = IF ok THEN "rel" ELSE "none"]
  /\ pidx' = [pidx EXCEPT ![p] = 0]
  /\ pupd' = [pupd EXCEPT ![p] = {}]
  /\ psnap' = [psnap EXCEPT ![p] = {}]
  /\ UNCHANGED <<polled_tags, thread_lock, polling, cvars, tvars, clast>>

\* self.thread_lock = False
PollRelease(p) ==
  /\ ppc[p] = "rel"
  /\ thread_lock' = FALSE
  /\ ppc' = [ppc EXCEPT ![p] = "sleep"]
  /\ UNCHANGED <<polled_tags, polling, cvars, pidx, pupd, psnap, tvars, clast>>

\* time.sleep((ts+self._pollrate)-time.time())
\* overrun = TRUE: the deadline has passed, the argument is negative and
\* time.sleep raises ValueError, which ends the thread
PollSleep(p, overrun) ==
  /\ ppc[p] = "sleep"
  /\ ppc' = [ppc EXCEPT ![p] = IF overrun THEN "none" ELSE "while"]
  /\ UNCHANGED <<polled_tags, thread_lock, polling, cvars, pidx, pupd, psnap, tvars, clast>>

\* ---- new_tag / load_tags_from_db / save_to_db ----------------------------
\* TAG_TYPES = {'local': Tag}: the connection types with a Tag constructor
TAG_TYPES == {"local"}
\* the connection types: Connection is "local", LogixConnection is "logix"
ConnTypes == {"local", "logix"}
\* params['id'] of a connection: an id, or None for one the database names
ConnIds == {"None", "c1"}
\* the id the database creates for a row saved without one
DbIds == {"db1"}

\* the params dicts a caller passes to new_tag: with or without 'id', with
\* or without a 'connection_id' of its own
TagParams ==
  {[id |-> t] : t \in Tags}
    \cup {[id |-> t, connection_id |-> "c2"] : t \in Tags}
    \cup {[k \in {} |-> "None"], [connection_id |-> "c2"]}

\* Tag.__init__: 'id' and 'connection_id' are required
TagAccepts(params) == {"id", "connection_id"} \subseteq DOMAIN params
\* the Tag built from params: its identity
Tag(params) == [id |-> params["id"], connection_id |-> params["connection_id"]]

\* params['connection_id'] = self.id
ForceOwner(params) == ("connection_id" :> conn_id) @@ params

\* the outcome of new_tag, registering the Tag before it is known to exist
NewTagEager(params) ==
  LET forced == ForceOwner(params)
  IN /\ tags' = IF "id" \in DOMAIN forced
                  THEN (forced["id"] :> Tag(forced)) @@ tags
                  ELSE tags
     /\ IF connection_type \in TAG_TYPES /\ TagAccepts(forced)
          THEN /\ raised' = "none"
               /\ returned' = <<"Tag", forced["id"], forced["connection_id"]>>
          ELSE /\ raised' = "PropertyError"
               /\ returned' = <<>>

\* self.tags[params["id"]] = TAG_TYPES[self.connection_type](params): the
\* right-hand side is evaluated first, a KeyError of the lookup becomes
\* PropertyError and a failure of the constructor propagates; then
\* return self.tags[params["id"]]
NewTagOutcome(params) ==
  LET forced == ForceOwner(params)
  IN IF connection_type \in TAG_TYPES /\ TagAccepts(forced)
       THEN /\ tags' = (forced["id"] :> Tag(forced)) @@ tags
            /\ raised' = "none"
            /\ returned' = <<"Tag", forced["id"], forced["connection_id"]>>
       ELSE /\ tags' = tags
            /\ raised' = "PropertyError"
            /\ returned' = <<>>

new_tag(params) ==
  /\ NewTagOutcome(params)
  /\ UNCHANGED <<conn_id, connection_type, con_man, lvars, clast>>

\* for tag in tags: params = TAG_TYPES[...].get_params_from_db(...);
\* self.new_tag(params).  rows: the ids of the rows whose connection_id is
\* self.id; the lookup raises KeyError at the first row of an unregistered
\* connection type
load_tags_from_db(rows) ==
  /\ IF rows = {} \/ connection_type \in TAG_TYPES
       THEN /\ tags' = [t \in rows \cup DOMAIN tags |->
                          IF t \in rows
                            THEN Tag([id |-> t, connection_id |-> conn_id])
                            ELSE tags[t]]
            /\ raised' = "none"
       ELSE /\ tags' = tags
            /\ raised' = "KeyError"
  /\ returned' = <<>>
  /\ UNCHANGED <<conn_id, connection_type, con_man, lvars, clast>>

\* entry.id = self.id; session.commit(); if not self._id == entry.id:
\* self._id = entry.id.  created: the id the database gives a row that was
\* saved with id None
save_to_db(created) ==
  LET entry_id == IF conn_id = "None" THEN created ELSE conn_id
  IN /\ conn_id' = IF conn_id # entry_id THEN entry_id ELSE conn_id
     /\ raised' = "none"
     /\ returned' = <<entry_id>>
     /\ UNCHANGED <<connection_type, tags, con_man, lvars, clast>>

\* ---- connect_connection / disconnect_connection ---------------------------
\* self.con_man = ConxManager(self.process_link); ...; return
\* self.con_man.is_polling(conx_id).  status: what the manager reports
connect_connection(status) ==
  /\ con_man' = "ConxManager"
  /\ raised' = "none"
  /\ returned' = <<status>>
  /\ UNCHANGED <<conn_id, connection_type, tags, lvars, clast>>

\* `self.con_man is not bool`: the value is compared with the type bool
IsNotBool(v) == v # "bool"

\* the true branch calls self.con_man.disconnect(conx_id): on False that is
\* AttributeError ('bool' object has no attribute 'disconnect'), raised
\* before con_man is assigned
disconnect_connection(status) ==
  /\ IF IsNotBool(con_man)
       THEN IF con_man = "False"
              THEN /\ raised' = "AttributeError"
                   /\ returned' = <<>>
                   /\ con_man' = con_man
              ELSE /\ raised' = "none"
                   /\ returned' = <<status>>
                   /\ con_man' = "False"
       ELSE /\ raised' = "none"
            /\ returned' = <<>>
            /\ con_man' = con_man
  /\ UNCHANGED <<conn_id, connection_type, tags, lvars, clast>>

\* ---- specifications -----------------------------------------------------
ControlStep(c, L) ==
  \/ AquireSpin(c)
  \/ AquireSet(c)
  \/ LoopTest(c)
  \/ LoopBody(c)
  \/ Hitlist(c)
  \/ PopStep(c)
  \/ SetPollingStep(c, L)
  \/ Release(c)

PollStep(p) ==
  \/ PollWhile(p)
  \/ PollSpin(p)
  \/ PollLock(p)
  \/ PollIter(p)
  \/ PollSink(p, TRUE)
  \/ PollRelease(p)
  \/ PollSleep(p, FALSE)

\* the steps of the control threads C, calling with the argument lists A,
\* and of the poll threads of the pool L
Steps(C, L, A) ==
  \/ \E c \in C, sub \in A : Call(c, "update", sub)
  \/ \E c \in C, sub \in A : Call(c, "remove", sub)
  \/ \E c \in C, b \in BOOLEAN : CallSetPolling(c, L, b)
  \/ \E c \in C : ControlStep(c, L)
  \/ \E p \in L : PollStep(p)

\* what the collaborators and the clock can do to a cycle: store_updates
\* raises, or the cycle overruns its deadline
Failures(L) ==
  \/ \E p \in L : PollSink(p, FALSE)
  \/ \E p \in L : PollSleep(p, TRUE)

NextOf(C, L, A) == Steps(C, L, A) \/ Failures(L)

\* one control thread and one poll thread at a time
Next == NextOf({1}, {1}, Args)
Spec == Init /\ [][Next]_vars

\* one control thread, and a start may find the previous poll thread alive
NextLoops == NextOf({1}, Loops, SeqsUpTo(1))
LoopsSpec == Init /\ [][NextLoops]_vars

\* no collaborator fails and no cycle overruns, and threads are scheduled
\* fairly: a call in progress and a live poll thread keep taking steps;
\* nothing obliges the control path to make a call
NextFair == Steps({1}, {1}, Args)
Fairness ==
  /\ \A c \in {1} : WF_vars(ControlStep(c, {1}))
  /\ \A p \in {1} : WF_vars(PollStep(p))
FairSpec == Init /\ [][NextFair]_vars /\ Fairness

\* two control threads call update_polled_tags / remove_polled_tags with the
\* same one-id list, next to one poll thread
RaceArgs == {<<AllTags[1]>>}
NextRace == NextOf(Ctl, {1}, RaceArgs)
RaceSpec == Init /\ [][NextRace]_vars

\* the control path only calls update_polled_tags, one call after the other,
\* next to one poll thread
NextRepeat ==
  \/ \E sub \in Args : Call(1, "update", sub)
  \/ AquireSpin(1)
  \/ AquireSet(1)
  \/ LoopTest(1)
  \/ LoopBody(1)
  \/ Hitlist(1)
  \/ PopStep(1)
  \/ SetPollingStep(1, {1})
  \/ ReleaseNoted(1)
  \/ PollStep(1)
  \/ Failures({1})
RepeatSpec == Init /\ [][NextRepeat]_vars

\* the control path only calls set_polling (connect / disconnect), a start
\* may find earlier poll threads alive
NextFlag ==
  \/ \E c \in {1}, b \in BOOLEAN : CallSetPolling(c, Loops, b)
  \/ \E p \in Loops : PollStep(p)
  \/ Failures(Loops)
FlagSpec == Init /\ [][NextFlag]_vars

\* the configuration path: a connection of either type, with or without an
\* id of its own, gets tags attached, is saved, connected and disconnected
InitConfig ==
  /\ InitThreads
  /\ \E id \in ConnIds, type \in ConnTypes : InitConnection(id, type)
NextConfig ==
  \/ \E params \in TagParams : new_tag(params)
  \/ \E rows \in SUBSET Tags : load_tags_from_db(rows)
  \/ \E created \in DbIds : save_to_db(created)
  \/ \E status \in {"True", "False"} : connect_connection(status)
  \/ \E status \in {"True", "False"} : disconnect_connection(status)
ConfigSpec == InitConfig /\ [][NextConfig]_vars

\* ---- vocabulary of the properties ----------------------------------------
\* thread c returns from update_polled_tags / remove_polled_tags in this step
Returns(c) == cpc[c] = "rel" /\ cpc'[c] = "idle"
\* poll thread p hands its batch pupd[p] to the sink in this step
HandsBatch(p) == ppc[p] = "sink" /\ ppc'[p] # "sink"
\* the threads inside a section that thread_lock protects
CtlInSection == {c \in Ctl : cpc[c] \in {"chk", "mod", "hit", "pop", "setp", "rel"}}
PollInSection == {p \in Loops : ppc[p] \in {"iter", "sink", "rel"}}
\* no control call is in progress
Quiet == \A c \in Ctl : cpc[c] = "idle"
\* some live poll thread can take a step
LoopCanStep == \E p \in Loops : PollStep(p) \/ PollSink(p, FALSE) \/ PollSleep(p, TRUE)

\* ---- properties ----------------------------------------------------------
\* C1: when update_polled_tags(S) returns, with no other control call
\* interleaved, the polled-tag set holds exactly the ids of S.
C1_FullReplace ==
  [][\A c \in Ctl : (Returns(c) /\ cop[c] = "update")
        => Range(polled_tags') = Range(csub[c])]_vars

\* C2: when remove_polled_tags(S) returns, the polled-tag set is the prior
\* set P minus the ids of S.
C2_PureSubtraction ==
  [][\A c \in Ctl : (Returns(c) /\ cop[c] = "remove")
        => Range(polled_tags') = cprior[c] \ Range(csub[c])]_vars

\* C3: at most one thread is inside a section protected by thread_lock, and
\* a thread inside one holds the lock.
C3_MutualExclusion ==
  /\ Cardinality(CtlInSection) + Cardinality(PollInSection) <= 1
  /\ (CtlInSection # {} \/ PollInSection # {}) => thread_lock

\* C4: the batch a cycle hands to the sink has exactly the ids of the
\* polled-tag set as it stood when the cycle acquired the lock.
C4_NoTornRead ==
  [][\A p \in Loops : HandsBatch(p) => pupd[p] = psnap[p]]_vars

\* C5: at most one poll thread is alive per connection.
C5_OneLoop == Cardinality(Alive) <= 1

\* C6: polling is true exactly when the polled-tag set is non-empty and a
\* poll thread is alive.
C6_PollingInvariant == polling <=> (Len(polled_tags) > 0 /\ Alive # {})

\* C7: when update_polled_tags or remove_polled_tags returns, the polling
\* flag tells whether the resulting polled-tag set is non-empty.
C7_AutoStartStop ==
  [][\A c \in Ctl : Returns(c) => (polling' = (Len(polled_tags') > 0))]_vars

\* C7 witness: calls about to return after starting a poll thread for a
\* non-empty set, and after stopping on a set that became empty.
C7_Witness ==
  \E c \in Ctl : /\ cpc[c] = "rel"
                 /\ cop[c] = "remove"
                 /\ cprior[c] # {}
                 /\ polled_tags = <<>>
                 /\ ~polling

\* C8: update_polled_tags(S), S non-empty, that started the poll thread leads
\* to a batch containing the ids of S reaching the sink, unless the control
\* path makes another call or stops polling first.
C8_StartLeadsToBatch ==
  \A S \in Args \ {<<>>} :
    (\E c \in Ctl : cpc[c] = "rel" /\ cop[c] = "update" /\ csub[c] = S /\ cstarted[c])
      ~> \/ \E p \in Loops : ppc[p] = "sink" /\ Range(S) \subseteq pupd[p]
         \/ ~polling
         \/ \E c \in Ctl : cpc[c] \notin {"idle", "rel"}

\* C9: once polling is stopped and the stopping call has returned, every
\* live poll thread still gets to its exit: while one is alive, some poll
\* thread can take a step.
C9_StoppedLoopExits ==
  (~polling /\ Quiet /\ Alive # {}) => ENABLED LoopCanStep

\* C10: with polling stopped and the stopping call returned, no batch is
\* handed to the sink.
C10_NoBatchAfterStop ==
  [][\A p \in Loops : HandsBatch(p) => ~(~polling /\ Quiet)]_vars

\* C11: set_polling(v) sets the flag to v, and a set_polling(v) on a
\* connection whose flag is already v changes nothing: it starts no further
\* poll thread.
C11_SetPollingIdempotent ==
  [][\A c \in Ctl, b \in BOOLEAN :
       CallSetPolling(c, Loops, b)
         => /\ polling' = b
            /\ (polling = b => ppc' = ppc)]_vars

\* C11 witness: the flag is true with a poll thread alive, and the control
\* path can call set_polling(True) again.
C11_Witness ==
  /\ polling
  /\ Alive # {}
  /\ ENABLED CallSetPolling(1, Loops, TRUE)

\* C12: no tag id occurs twice in polled_tags, in any reachable state.
C12_NoDuplicates == Cardinality(Range(polled_tags)) = Len(polled_tags)

\* C13: a cycle has released thread_lock when it hands its batch to the
\* sink: the lock is not held during the sink call.
C13_ReleaseBeforeSink ==
  [][\A p \in Loops : HandsBatch(p) => ~thread_lock]_vars

\* C14: a cycle that ends, on time or past its deadline, is followed by the
\* test of the next cycle: the step that ends the cycle never ends the
\* poll thread.
C14_OverrunContinues ==
  [][\A p \in Loops : ppc[p] = "sleep" => ppc'[p] \in {"sleep", "while"}]_vars

\* C15: a thread waiting for thread_lock while no thread is inside a locked
\* section (nobody is left to release it) is not stuck: it can take a
\* step, the time-out of its wait.
C15_BoundedWait ==
  (thread_lock /\ CtlInSection = {} /\ PollInSection = {})
    => /\ \A c \in Ctl : cpc[c] = "spin" => ENABLED ControlStep(c, Loops)
       /\ \A p \in Loops : ppc[p] = "spin" => ENABLED PollStep(p)

\* C16: a new_tag call on a connection type without a Tag constructor, or
\* with params the constructor rejects, ends with an error and leaves the
\* tag map as it was; any other call registers the new Tag under
\* params['id'], returns it and leaves the other entries alone.
C16_NewTagFrame ==
  [][\A params \in TagParams :
       new_tag(params)
         => IF connection_type \notin TAG_TYPES \/ "id" \notin DOMAIN params
              THEN raised' # "none" /\ tags' = tags
              ELSE /\ raised' = "none"
                   /\ DOMAIN tags' = DOMAIN tags \cup {params["id"]}
                   /\ tags'[params["id"]].id = params["id"]
                   /\ returned' = <<"Tag", params["id"],
                                     tags'[params["id"]].connection_id>>
                   /\ \A t \in DOMAIN tags \ {params["id"]} : tags'[t] = tags[t]]_vars

\* C16 witness: a new_tag call has failed on a connection that holds tags.
C16_Witness == raised = "PropertyError" /\ DOMAIN tags # {}

\* C17: when update_polled_tags(S) returns and the call before it was
\* update_polled_tags(S) too, the polled-tag set and the polling flag are
\* what the first call left.
C17_UpdateIdempotent ==
  [][\A c \in Ctl :
       (Returns(c) /\ clast # <<>> /\ clast[1] = csub[c])
         => /\ Range(polled_tags') = Range(clast[2])
            /\ polling' = clast[3]]_vars

\* C18: with no thread inside the locked section of poll and none inside
\* update_polled_tags / remove_polled_tags, thread_lock is False.
C18_NoLockLeak ==
  ((\A c \in Ctl : cpc[c] \in {"idle", "raised"}) /\ PollInSection = {})
    => ~thread_lock

\* C19: every Tag in the tag map has the connection_id of the connection
\* that holds it, as that id is now.
C19_TagOwnership == \A t \in DOMAIN tags : tags[t].connection_id = conn_id

\* C20: disconnect_connection ends without error and leaves con_man False;
\* on a connection whose con_man is False it changes nothing and returns
\* nothing.
C20_DisconnectSafe ==
  [][\A status \in {"True", "False"} :
       disconnect_connection(status)
         => /\ raised' = "none"
            /\ con_man' = "False"
            /\ (con_man = "False" => returned' = <<>>)]_vars
====
